---- MODULE Spec2Model ----
(***************************************************************************)
(* A model of tutorial.ipynb: three fine-tuning walk-throughs kept in one  *)
(* notebook and run cell by cell in one kernel.                            *)
(*                                                                         *)
(*   sections 1-2 (Next):  standard fine-tuning of a classifier and        *)
(*       instruction fine-tuning; the state is the kernel's global names   *)
(*       and the values bound to them.                                     *)
(*   section 3 (NextPeft): the post-processing loop over                   *)
(*       model.parameters(), get_peft_model and                            *)
(*       print_trainable_parameters.                                       *)
(*                                                                         *)
(* Library calls (tokenizer, torch.cat, torch.tensor, the model's forward  *)
(* pass, get_peft_model) are modelled by what the call written in the cell *)
(* does to the values the notebook holds.  A statement that raises aborts  *)
(* its cell and the next cell can still be run, as in a notebook.          *)
(*                                                                         *)
(* Two literals of the notebook are cut by a line end (the list on line 46 *)
(* has no closing bracket, the f-string of lines 360-361 is broken over    *)
(* two lines).  Both statements are modelled as the text spells them: the  *)
(* list of line 46 is the list of line 180, and the f-string evaluates     *)
(* 100 * trainable_params / all_param.                                     *)
(***************************************************************************)
EXTENDS Integers, Sequences, FiniteSets, TLC

\* ---------------------------------------------------------------- bounds
MaxN == 3          \* samples in a dataset drawn for the training runs
MaxRows == 2       \* samples in a dataset drawn for the encoding runs
MaxTok == 3        \* tokens a sample tokenizes to
ModelMaxLen == 2   \* the tokenizer's truncation length (below MaxTok)
MaxEpochs == 3     \* values drawn for num_epochs: 0..MaxEpochs
MaxPass == 2       \* times the cells are run top to bottom in one kernel
MaxParams == 2     \* parameters of a base model drawn for section 3

\* ------------------------------------------------------------- constants
PretrainedNumLabels == 2   \* out_features of the head from_pretrained builds
LoraR == 16                \* LoraConfig(r=16)

Labels == {"positive", "negative", "neutral"}

VARIABLES
    input,                \* the literals of the dataset cells and num_epochs
    pc,                   \* the next cell to run
    at,                   \* inside a training loop: the next statement
    pass,                 \* how many times the cells were started from the top
    env,                  \* the global names the kernel has bound
    tokenizer, model,     \* which tokenizer / model the names are bound to
    classifier,           \* out_features of the model's classification head
    texts, sentiments, instructions,
    encoded_texts, encoded_instructions,
    input_ids, attention_mask, instruction_ids,
    sentiment_labels, num_classes,
    num_epochs, epoch,
    calls,                \* per variant: the calls its loop has completed
    loop,                 \* per variant: "idle", "running", "done", "fault"
    faulted,              \* the cells that raised in this pass
    \* section 3
    ppc, params, fi, flags, peft,
    trainable_params, all_param, ci, report

nbVars == <<input, pc, at, pass, env, tokenizer, model, classifier, texts,
            sentiments, instructions, encoded_texts, encoded_instructions,
            input_ids, attention_mask, instruction_ids, sentiment_labels,
            num_classes, num_epochs, epoch, calls, loop, faulted>>

peftVars == <<ppc, params, fi, flags, peft, trainable_params, all_param, ci,
              report>>

vars == <<nbVars, peftVars>>

\* ------------------------------------------------------------- helpers
Min(a, b) == IF a < b THEN a ELSE b

RECURSIVE MaxLen(_)
MaxLen(rows) ==
    IF rows = <<>> THEN 0
    ELSE LET m == MaxLen(Tail(rows))
         IN IF Len(Head(rows)) > m THEN Len(Head(rows)) ELSE m

Range(s) == {s[i] : i \in DOMAIN s}

Repeat(x, n) == [j \in 1..n |-> x]

\* ------------------------------------------------- tokenizer(..., padding=True, truncation=True)
\* A sample is given by the token sequence its string tokenizes to.
Truncate(toks) == SubSeq(toks, 1, Min(Len(toks), ModelMaxLen))

PadNone(toks, L) == toks

PadTo(toks, L) == toks \o Repeat("pad", L - Len(toks))

MaskOf(toks, L) == Repeat(1, Len(toks)) \o Repeat(0, L - Len(toks))

Tokenize(samples) ==
    LET cut == [i \in DOMAIN samples |-> Truncate(samples[i])]
        L == MaxLen(cut)
    IN [input_ids |-> [i \in DOMAIN cut |-> PadTo(cut[i], L)],
        attention_mask |-> [i \in DOMAIN cut |-> MaskOf(cut[i], L)]]

\* ------------------------------------------------- list.index, the label cell
\* sentiments.index(x): the 0-based position of the first element equal to x
Index(list, x) == (CHOOSE i \in DOMAIN list :
                      list[i] = x /\ \A j \in 1..(i - 1) : list[j] # x) - 1

SentimentLabelsByPosition(list) == [i \in DOMAIN list |-> i - 1]

SentimentLabels(list) == [i \in DOMAIN list |-> Index(list, list[i])]

\* len(set(sentiment_labels))
NumClasses(labels) == Cardinality(Range(labels))

\* ------------------------------------------------- torch.cat(..., dim=1), torch.ones_like
CatSwapped(a, b) == [i \in DOMAIN a |-> b[i] \o a[i]]

Cat(a, b) == [i \in DOMAIN a |-> a[i] \o b[i]]

OnesLike(a) == [i \in DOMAIN a |-> Repeat(1, Len(a[i]))]

\* ------------------------------------------------- inputs
TextSample(k) == Repeat("t", k)     \* a text that tokenizes to k tokens

InstrSample(k) == Repeat("i", k)    \* an instruction that tokenizes to k tokens

LabelSeq == <<"positive", "negative", "neutral">>

NumEpochs == 3

\* datasets for the training runs: every list of 1..MaxN labels, every
\* num_epochs in 0..MaxEpochs; sample i tokenizes to Min(i, MaxTok) tokens
TrainInputs ==
    UNION {{[texts |-> [i \in 1..n |-> TextSample(Min(i, MaxTok))],
             instructions |-> [i \in 1..n |-> InstrSample(Min(i, MaxTok))],
             sentiments |-> s,
             num_epochs |-> e] :
            s \in [1..n -> Labels], e \in 0..MaxEpochs} : n \in 1..MaxN}

\* datasets for the encoding runs: every choice of token counts for 1..MaxRows
\* texts and instructions; the labels and num_epochs are the notebook's
EncodeInputs ==
    UNION {{[texts |-> [i \in 1..n |-> TextSample(tl[i])],
             instructions |-> [i \in 1..n |-> InstrSample(il[i])],
             sentiments |-> [i \in 1..n |-> LabelSeq[((i - 1) % 3) + 1]],
             num_epochs |-> NumEpochs] :
            tl \in [1..n -> 1..MaxTok], il \in [1..n -> 1..MaxTok]} :
           n \in 1..MaxRows}

Variants == {"standard", "instruction"}

\* ------------------------------------------------- the kernel before any cell
FreshKernel ==
    /\ pc = "s_load" /\ at = "for" /\ pass = 1
    /\ env = {}
    /\ tokenizer = "none" /\ model = "none" /\ classifier = 0
    /\ texts = <<>> /\ sentiments = <<>> /\ instructions = <<>>
    /\ encoded_texts = [input_ids |-> <<>>, attention_mask |-> <<>>]
    /\ encoded_instructions = [input_ids |-> <<>>, attention_mask |-> <<>>]
    /\ input_ids = <<>> /\ attention_mask = <<>> /\ instruction_ids = <<>>
    /\ sentiment_labels = <<>> /\ num_classes = 0
    /\ num_epochs = 0 /\ epoch = 0
    /\ calls = [v \in Variants |-> <<>>]
    /\ loop = [v \in Variants |-> "idle"]
    /\ faulted = {}

\* what print_trainable_parameters has printed: nothing yet
NoReport == [kind |-> "none", trainable |-> 0, all |-> 0, percent |-> <<0, 1>>]

PeftIdle ==
    /\ ppc = "off" /\ params = <<>> /\ fi = 0
    /\ flags = {} /\ peft = "none"
    /\ trainable_params = 0 /\ all_param = 0 /\ ci = 0
    /\ report = NoReport

InitTrain == input \in TrainInputs /\ FreshKernel /\ PeftIdle

InitEncode == input \in EncodeInputs /\ FreshKernel /\ PeftIdle

\* ------------------------------------------------- names a cell reads before it binds them
Uses(cell) ==
    CASE cell = "s_load" -> {}
      [] cell = "s_data" -> {}
      [] cell = "s_enc" -> {"tokenizer", "texts", "sentiments"}
      [] cell = "s_head" -> {"sentiment_labels", "model"}
      [] cell = "s_train" -> {"model", "nn"}
      [] cell = "i_load" -> {}
      [] cell = "i_data" -> {}
      [] cell = "i_enc" -> {"tokenizer", "texts", "instructions"}
      [] cell = "i_cat" -> {"instruction_ids", "input_ids", "attention_mask"}
      [] cell = "i_train" -> {"model", "torch"}
      [] OTHER -> {}

\* names the statements of a training loop read
LoopUses(v) ==
    IF v = "standard"
    THEN {"num_epochs", "optimizer", "model", "input_ids", "attention_mask",
          "torch", "sentiment_labels"}
    ELSE {"num_epochs", "optimizer", "model", "input_ids", "attention_mask",
          "torch", "sentiments"}

Ready(cell) == pc = cell /\ Uses(cell) \subseteq env

\* ------------------------------------------------- section 1: standard fine-tuning
LoadStd ==
    /\ Ready("s_load")
    /\ tokenizer' = "distilbert" /\ model' = "distilbert"
    /\ classifier' = PretrainedNumLabels
    /\ env' = env \cup {"tokenizer", "model"}
    /\ pc' = "s_data"
    /\ UNCHANGED <<input, at, pass, texts, sentiments, instructions,
                   encoded_texts, encoded_instructions, input_ids,
                   attention_mask, instruction_ids, sentiment_labels,
                   num_classes, num_epochs, epoch, calls, loop, faulted>>
    /\ UNCHANGED peftVars

DataStd ==
    /\ Ready("s_data")
    /\ texts' = input.texts
    /\ sentiments' = input.sentiments
    /\ env' = env \cup {"texts", "sentiments"}
    /\ pc' = "s_enc"
    /\ UNCHANGED <<input, at, pass, tokenizer, model, classifier, instructions,
                   encoded_texts, encoded_instructions, input_ids,
                   attention_mask, instruction_ids, sentiment_labels,
                   num_classes, num_epochs, epoch, calls, loop, faulted>>
    /\ UNCHANGED peftVars

EncodeStd ==
    /\ Ready("s_enc")
    /\ encoded_texts' = Tokenize(texts)
    /\ input_ids' = encoded_texts'.input_ids
    /\ attention_mask' = encoded_texts'.attention_mask
    /\ sentiment_labels' = SentimentLabels(sentiments)
    /\ env' = env \cup {"encoded_texts", "input_ids", "attention_mask",
                        "sentiment_labels"}
    /\ pc' = "s_head"
    /\ UNCHANGED <<input, at, pass, tokenizer, model, classifier, texts,
                   sentiments, instructions, encoded_instructions,
                   instruction_ids, num_classes, num_epochs, epoch, calls,
                   loop, faulted>>
    /\ UNCHANGED peftVars

HeadStd ==
    /\ Ready("s_head")
    /\ num_classes' = NumClasses(sentiment_labels)
    /\ classifier' = num_classes'
    /\ env' = env \cup {"nn", "num_classes", "classification_head"}
    /\ pc' = "s_train"
    /\ UNCHANGED <<input, at, pass, tokenizer, model, texts, sentiments,
                   instructions, encoded_texts, encoded_instructions,
                   input_ids, attention_mask, instruction_ids,
                   sentiment_labels, num_epochs, epoch, calls, loop, faulted>>
    /\ UNCHANGED peftVars

\* the statements of a training cell before its for loop
TrainSetup(v, cell, loopcell) ==
    /\ Ready(cell)
    /\ num_epochs' = input.num_epochs
    /\ epoch' = 0
    /\ calls' = [calls EXCEPT ![v] = <<>>]
    /\ loop' = [loop EXCEPT ![v] = "running"]
    /\ env' = env \cup {"optim", "optimizer", "criterion", "num_epochs"}
    /\ pc' = loopcell /\ at' = "for"
    /\ UNCHANGED <<input, pass, tokenizer, model, classifier, texts,
                   sentiments, instructions, encoded_texts,
                   encoded_instructions, input_ids, attention_mask,
                   instruction_ids, sentiment_labels, num_classes, faulted>>
    /\ UNCHANGED peftVars

TrainSetupStd == TrainSetup("standard", "s_train", "s_loop")

\* ------------------------------------------------- the training loops
LoopCell(v) == IF v = "standard" THEN "s_loop" ELSE "i_loop"

AfterLoop(v) == IF v = "standard" THEN "i_load" ELSE "end"

\* the list the loop hands to torch.tensor as labels, with its element type:
\* the list of indices (standard), the list of label strings (instruction)
LabelsArg(v) ==
    IF v = "standard"
    THEN [dtype |-> "int", vals |-> sentiment_labels]
    ELSE [dtype |-> "str", vals |-> sentiments]

\* names the forward statement reads, left to right
ForwardUses(v) ==
    IF v = "standard"
    THEN {"model", "input_ids", "attention_mask", "torch", "sentiment_labels"}
    ELSE {"model", "input_ids", "attention_mask", "torch", "sentiments"}

\* torch.tensor(list) builds a tensor of numbers only
TensorOK(arg) == arg.dtype = "int"

\* the forward pass computes a loss: one class index per row, each within the
\* head's out_features, and a mask shaped like the ids
ForwardOK(ids, mask, arg, head) ==
    /\ Len(arg.vals) = Len(ids)
    /\ \A i \in DOMAIN arg.vals : arg.vals[i] \in 0..(head - 1)
    /\ DOMAIN mask = DOMAIN ids
    /\ \A i \in DOMAIN ids : Len(mask[i]) = Len(ids[i])

LoopFrame ==
    /\ UNCHANGED <<input, pass, tokenizer, model, classifier, texts,
                   sentiments, instructions, encoded_texts,
                   encoded_instructions, input_ids, attention_mask,
                   instruction_ids, sentiment_labels, num_classes,
                   num_epochs>>
    /\ UNCHANGED peftVars

\* for epoch in range(num_epochs):
For(v) ==
    /\ pc = LoopCell(v) /\ at = "for"
    /\ IF epoch < num_epochs
       THEN /\ at' = "zero_grad"
            /\ env' = env \cup {"epoch"}
            /\ UNCHANGED <<pc, loop>>
       ELSE /\ pc' = AfterLoop(v)
            /\ loop' = [loop EXCEPT ![v] = "done"]
            /\ UNCHANGED <<at, env>>
    /\ UNCHANGED <<epoch, calls, faulted>>
    /\ LoopFrame

\* optimizer.zero_grad()
ZeroGrad(v) ==
    /\ pc = LoopCell(v) /\ at = "zero_grad"
    /\ calls' = [calls EXCEPT ![v] = Append(@, "zero_grad")]
    /\ at' = "forward"
    /\ UNCHANGED <<pc, env, epoch, loop, faulted>>
    /\ LoopFrame

\* outputs = model(input_ids, attention_mask=attention_mask, labels=torch.tensor(...))
Forward(v) ==
    /\ pc = LoopCell(v) /\ at = "forward"
    /\ IF /\ ForwardUses(v) \subseteq env
          /\ TensorOK(LabelsArg(v))
          /\ ForwardOK(input_ids, attention_mask, LabelsArg(v), classifier)
       THEN /\ calls' = [calls EXCEPT ![v] = Append(@, "forward")]
            /\ env' = env \cup {"outputs"}
            /\ at' = "backward"
            /\ UNCHANGED <<pc, loop, faulted>>
       ELSE \* NameError, or torch.tensor or the loss raises: the cell ends
            /\ loop' = [loop EXCEPT ![v] = "fault"]
            /\ faulted' = faulted \cup {LoopCell(v)}
            /\ pc' = AfterLoop(v)
            /\ at' = "for"
            /\ UNCHANGED <<calls, env>>
    /\ UNCHANGED epoch
    /\ LoopFrame

\* loss = outputs.loss; loss.backward()
Backward(v) ==
    /\ pc = LoopCell(v) /\ at = "backward"
    /\ calls' = [calls EXCEPT ![v] = Append(@, "backward")]
    /\ env' = env \cup {"loss"}
    /\ at' = "step"
    /\ UNCHANGED <<pc, epoch, loop, faulted>>
    /\ LoopFrame

\* optimizer.step()
Step(v) ==
    /\ pc = LoopCell(v) /\ at = "step"
    /\ calls' = [calls EXCEPT ![v] = Append(@, "step")]
    /\ epoch' = epoch + 1
    /\ at' = "for"
    /\ UNCHANGED <<pc, env, loop, faulted>>
    /\ LoopFrame

\* ------------------------------------------------- section 2: instruction fine-tuning
LoadIns ==
    /\ Ready("i_load")
    /\ tokenizer' = "gpt2" /\ model' = "gpt2"
    /\ classifier' = PretrainedNumLabels
    /\ env' = env \cup {"tokenizer", "model"}
    /\ pc' = "i_data"
    /\ UNCHANGED <<input, at, pass, texts, sentiments, instructions,
                   encoded_texts, encoded_instructions, input_ids,
                   attention_mask, instruction_ids, sentiment_labels,
                   num_classes, num_epochs, epoch, calls, loop, faulted>>
    /\ UNCHANGED peftVars

DataIns ==
    /\ Ready("i_data")
    /\ texts' = input.texts
    /\ sentiments' = input.sentiments
    /\ instructions' = input.instructions
    /\ env' = env \cup {"texts", "sentiments", "instructions"}
    /\ pc' = "i_enc"
    /\ UNCHANGED <<input, at, pass, tokenizer, model, classifier,
                   encoded_texts, encoded_instructions, input_ids,
                   attention_mask, instruction_ids, sentiment_labels,
                   num_classes, num_epochs, epoch, calls, loop, faulted>>
    /\ UNCHANGED peftVars

EncodeIns ==
    /\ Ready("i_enc")
    /\ encoded_texts' = Tokenize(texts)
    /\ encoded_instructions' = Tokenize(instructions)
    /\ input_ids' = encoded_texts'.input_ids
    /\ attention_mask' = encoded_texts'.attention_mask
    /\ instruction_ids' = encoded_instructions'.input_ids
    /\ env' = env \cup {"encoded_texts", "encoded_instructions", "input_ids",
                        "attention_mask", "instruction_ids"}
    /\ pc' = "i_cat"
    /\ UNCHANGED <<input, at, pass, tokenizer, model, classifier, texts,
                   sentiments, instructions, sentiment_labels, num_classes,
                   num_epochs, epoch, calls, loop, faulted>>
    /\ UNCHANGED peftVars

\* torch.cat along dim 1 needs as many rows in both tensors
CatIns ==
    /\ Ready("i_cat")
    /\ Len(instruction_ids) = Len(input_ids)
    /\ input_ids' = Cat(instruction_ids, input_ids)
    /\ attention_mask' = Cat(OnesLike(instruction_ids), attention_mask)
    /\ env' = env \cup {"torch"}
    /\ pc' = "i_train"
    /\ UNCHANGED <<input, at, pass, tokenizer, model, classifier, texts,
                   sentiments, instructions, encoded_texts,
                   encoded_instructions, instruction_ids, sentiment_labels,
                   num_classes, num_epochs, epoch, calls, loop, faulted>>
    /\ UNCHANGED peftVars

TrainSetupIns == TrainSetup("instruction", "i_train", "i_loop")

\* the cells are run again from the top in the same kernel
Rerun ==
    /\ pc = "end" /\ pass < MaxPass
    /\ pass' = pass + 1
    /\ pc' = "s_load"
    /\ faulted' = {}
    /\ loop' = [v \in Variants |-> "idle"]
    /\ UNCHANGED <<input, at, env, tokenizer, model, classifier, texts,
                   sentiments, instructions, encoded_texts,
                   encoded_instructions, input_ids, attention_mask,
                   instruction_ids, sentiment_labels, num_classes,
                   num_epochs, epoch, calls>>
    /\ UNCHANGED peftVars

Next ==
    \/ LoadStd \/ DataStd \/ EncodeStd \/ HeadStd \/ TrainSetupStd
    \/ LoadIns \/ DataIns \/ EncodeIns \/ CatIns \/ TrainSetupIns
    \/ \E v \in Variants : For(v)
    \/ \E v \in Variants : ZeroGrad(v)
    \/ \E v \in Variants : Forward(v)
    \/ \E v \in Variants : Backward(v)
    \/ \E v \in Variants : Step(v)
    \/ Rerun

\* the training runs: every label list and every num_epochs
Spec == InitTrain /\ [][Next]_vars

\* the encoding runs: every choice of token counts
SpecEncode == InitEncode /\ [][Next]_vars

\* every cell finds the names it reads (the loops' forward statement aside)
CellNamesBound == Uses(pc) \subseteq env

TypeOK ==
    /\ pc \in {"s_load", "s_data", "s_enc", "s_head", "s_train", "s_loop",
               "i_load", "i_data", "i_enc", "i_cat", "i_train", "i_loop",
               "end"}
    /\ at \in {"for", "zero_grad", "forward", "backward", "step"}
    /\ pass \in 1..MaxPass
    /\ epoch \in 0..MaxEpochs
    /\ \A v \in Variants : loop[v] \in {"idle", "running", "done", "fault"}

\* =================================================== section 3: PEFT
\* A parameter: the module it belongs to, its shape, its dtype, its
\* requires_grad flag and its values (kept by a cast, which changes the dtype).
Modules == {"q_proj", "v_proj", "layer_norm"}

TargetModules == {"q_proj", "v_proj"}     \* LoraConfig(target_modules=...)

Dims == {1, 2}

Shapes == {<<d>> : d \in Dims} \cup {<<d, d>> : d \in Dims}

\* only floating-point tensors can require gradients
BaseParams ==
    {[module |-> m, shape |-> sh, dtype |-> dg[1], requires_grad |-> dg[2],
      values |-> "pretrained"] :
     m \in Modules, sh \in Shapes,
     dg \in {<<"float16", TRUE>>, <<"float16", FALSE>>, <<"int8", FALSE>>}}

\* a base model of 0..MaxParams parameters, and where the run starts: at the
\* post-processing cell, or at a call of print_trainable_parameters(model)
PeftInputs ==
    UNION {{[params |-> ps, start |-> st] :
            ps \in [1..k -> BaseParams], st \in {"freeze", "count"}} :
           k \in 0..MaxParams}

InitPeft ==
    /\ input \in PeftInputs
    /\ FreshKernel
    /\ ppc = input.start
    /\ params = input.params
    /\ fi = 0 /\ flags = {} /\ peft = "none"
    /\ trainable_params = 0 /\ all_param = 0 /\ ci = 0
    /\ report = NoReport

\* param.ndim, param.numel()
Ndim(p) == Len(p.shape)

Numel(p) == IF Ndim(p) = 1 THEN p.shape[1] ELSE p.shape[1] * p.shape[2]

\* the body of the loop over model.parameters()
FreezeParamCastAll(p) ==
    [p EXCEPT !.requires_grad = FALSE, !.dtype = "float32"]

FreezeParam(p) ==
    [p EXCEPT !.requires_grad = FALSE,
              !.dtype = IF Ndim(p) = 1 THEN "float32" ELSE @]

FreezeStep ==
    /\ ppc = "freeze" /\ fi < Len(params)
    /\ params' = [params EXCEPT ![fi + 1] = FreezeParam(@)]
    /\ fi' = fi + 1
    /\ UNCHANGED <<ppc, flags, peft, trainable_params, all_param, ci, report>>
    /\ UNCHANGED nbVars

\* the loop has ended: gradient checkpointing, enable_input_require_grads and
\* the float32 cast of lm_head's output touch no parameter
PostProcess ==
    /\ ppc = "freeze" /\ fi = Len(params)
    /\ flags' = {"gradient_checkpointing", "input_require_grads",
                 "lm_head_output_float32"}
    /\ ppc' = "lora"
    /\ UNCHANGED <<params, fi, peft, trainable_params, all_param, ci, report>>
    /\ UNCHANGED nbVars

\* get_peft_model(model, config): every targeted weight of shape (out, in)
\* gets lora_A of shape (r, in) and lora_B of shape (out, r), trainable; every
\* parameter of the base model is left not trainable (bias="none")
IsTarget(p) == p.module \in TargetModules /\ Ndim(p) = 2

Adapters(p) ==
    << [module |-> p.module, shape |-> <<LoraR, p.shape[2]>>,
        dtype |-> "float32", requires_grad |-> TRUE, values |-> "lora_A"],
       [module |-> p.module, shape |-> <<p.shape[1], LoraR>>,
        dtype |-> "float32", requires_grad |-> TRUE, values |-> "lora_B"] >>

RECURSIVE GetPeftModel(_)
GetPeftModel(ps) ==
    IF ps = <<>> THEN <<>>
    ELSE << [Head(ps) EXCEPT !.requires_grad = FALSE] >>
         \o (IF IsTarget(Head(ps)) THEN Adapters(Head(ps)) ELSE <<>>)
         \o GetPeftModel(Tail(ps))

\* model = get_peft_model(model, config); print_trainable_parameters(model)
Inject ==
    /\ ppc = "lora"
    /\ IF \E i \in DOMAIN params : IsTarget(params[i])
       THEN /\ params' = GetPeftModel(params)
            /\ peft' = "lora"
            /\ ppc' = "count"
       ELSE \* no target module in the base model: get_peft_model raises
            /\ peft' = "fault"
            /\ ppc' = "done"
            /\ UNCHANGED params
    /\ UNCHANGED <<fi, flags, trainable_params, all_param, ci, report>>
    /\ UNCHANGED nbVars

\* print_trainable_parameters: one iteration of its loop
TrainableAddAll(p) == Numel(p)

TrainableAdd(p) == IF p.requires_grad THEN Numel(p) ELSE 0

CountStep ==
    /\ ppc = "count" /\ ci < Len(params)
    /\ all_param' = all_param + Numel(params[ci + 1])
    /\ trainable_params' = trainable_params + TrainableAdd(params[ci + 1])
    /\ ci' = ci + 1
    /\ UNCHANGED <<ppc, params, fi, flags, peft, report>>
    /\ UNCHANGED nbVars

\* print(f"... {trainable_params} ... {all_param} ...
\*          {100 * trainable_params / all_param}"); the quotient is kept as
\* the pair <<numerator, denominator>>
Report ==
    /\ ppc = "count" /\ ci = Len(params)
    /\ report' = IF all_param = 0
                 THEN [NoReport EXCEPT !.kind = "ZeroDivisionError"]
                 ELSE [kind |-> "printed",
                       trainable |-> trainable_params,
                       all |-> all_param,
                       percent |-> <<100 * trainable_params, all_param>>]
    /\ ppc' = "done"
    /\ UNCHANGED <<params, fi, flags, peft, trainable_params, all_param, ci>>
    /\ UNCHANGED nbVars

NextPeft == FreezeStep \/ PostProcess \/ Inject \/ CountStep \/ Report

SpecPeft == InitPeft /\ [][NextPeft]_vars

\* =================================================== the claims
\* E repetitions of the four calls of one epoch, in order
RECURSIVE Cycles(_)
Cycles(e) ==
    IF e = 0 THEN <<>>
    ELSE Cycles(e - 1) \o <<"zero_grad", "forward", "backward", "step">>

Count(seq, x) == Cardinality({i \in DOMAIN seq : seq[i] = x})

\* rows is n rows of length L each
Rect(rows, n, L) == Len(rows) = n /\ \A i \in DOMAIN rows : Len(rows[i]) = L

LoopEnded(v) == loop[v] \in {"done", "fault"}

\* a loop that left its for statement made exactly the calls of num_epochs epochs
CompletedLoopCycles ==
    \A v \in Variants : loop[v] = "done" => calls[v] = Cycles(num_epochs)

\* a loop of three epochs that ran to its end is reachable (second pass)
CompletedLoopReached ==
    loop["standard"] = "done" /\ num_epochs = NumEpochs

\* C1: a training loop run with num_epochs = E ends having made exactly the
\* calls of E epochs, each epoch being zero_grad, forward, backward, step in
\* that order, and it ends by leaving the for loop, not by an exception.
C1_ExactlyECycles ==
    \A v \in Variants :
        LoopEnded(v) => loop[v] = "done" /\ calls[v] = Cycles(num_epochs)

\* C2: right after an encoding cell, input_ids and attention_mask have one row
\* per text sample and all their rows have one common length L; the encoded
\* instructions of the instruction variant are such a rectangle too.
C2_EncodedShape ==
    /\ pc \in {"s_head", "i_cat"} =>
          \E L \in 0..MaxTok :
              /\ Rect(input_ids, Len(texts), L)
              /\ Rect(attention_mask, Len(texts), L)
    /\ pc = "i_cat" =>
          \E L \in 0..MaxTok :
              /\ Rect(instruction_ids, Len(instructions), L)
              /\ Rect(encoded_instructions.attention_mask, Len(instructions), L)

\* C2's case: an encoding that had to pad one sample and truncate another
C2_Witness ==
    /\ pc = "i_cat"
    /\ \E i, j \in DOMAIN texts :
          Len(texts[i]) < ModelMaxLen /\ Len(texts[j]) > ModelMaxLen

\* C3: after the concatenation cell, row i of input_ids is row i of
\* instruction_ids followed by row i of the encoded text ids, its length is the
\* sum of the two lengths, attention_mask has the shape of input_ids, and
\* there are as many rows as samples.
C3_ConcatRows ==
    pc = "i_train" =>
        /\ Len(input_ids) = Len(texts)
        /\ Len(attention_mask) = Len(input_ids)
        /\ \A i \in DOMAIN input_ids :
              /\ input_ids[i] = instruction_ids[i] \o encoded_texts.input_ids[i]
              /\ Len(input_ids[i]) =
                     Len(instruction_ids[i]) + Len(encoded_texts.input_ids[i])
              /\ Len(attention_mask[i]) = Len(input_ids[i])

\* C3's case: a concatenation of instruction rows and text rows of different
\* lengths
C3_Witness ==
    /\ pc = "i_train"
    /\ Len(input_ids) > 1
    /\ Len(instruction_ids[1]) # Len(encoded_texts.input_ids[1])

\* C4: sentiments.index maps the labels of the list one-to-one onto the
\* indices it produces: equal labels get equal indices, distinct labels get
\* distinct indices, and there are as many indices as distinct labels.
C4_LabelBijection ==
    "sentiment_labels" \in env =>
        /\ Len(sentiment_labels) = Len(sentiments)
        /\ \A i, j \in DOMAIN sentiments :
              (sentiments[i] = sentiments[j])
                  <=> (sentiment_labels[i] = sentiment_labels[j])
        /\ Cardinality(Range(sentiment_labels)) = Cardinality(Range(sentiments))

\* C4's case: the labels of a list with a repeated label and two distinct
\* labels have been computed
C4_Witness ==
    /\ pc = "s_head"
    /\ \E i, j \in DOMAIN sentiments : i # j /\ sentiments[i] = sentiments[j]
    /\ \E i, j \in DOMAIN sentiments : sentiments[i] # sentiments[j]

\* C5: once get_peft_model has wrapped the frozen base model, the count of
\* trainable parameters print_trainable_parameters reports is strictly below
\* the count of all parameters it reports.
C5_TrainableBelowTotal ==
    (peft = "lora" /\ report.kind = "printed") =>
        report.trainable < report.all

\* C5's case: a base model that had trainable parameters was frozen, wrapped
\* and reported on
C5_Witness ==
    /\ peft = "lora" /\ report.kind = "printed"
    /\ report.trainable > 0
    /\ \E i \in DOMAIN input.params : input.params[i].requires_grad

\* C6: print_trainable_parameters keeps 0 <= trainable_params <= all_param
\* through its loop and, for every model, ends by reporting the two counts and
\* the percentage 100 * trainable_params / all_param.
C6_ReportsForEveryModel ==
    /\ ppc = "count" => (0 <= trainable_params /\ trainable_params <= all_param)
    /\ (ppc = "done" /\ peft # "fault") =>
          /\ report.kind = "printed"
          /\ report.trainable = trainable_params
          /\ report.all = all_param
          /\ report.percent = <<100 * trainable_params, all_param>>

\* C7: when the post-processing loop has ended, every parameter has
\* requires_grad = False, every parameter with ndim = 1 is float32, and every
\* parameter with ndim # 1 has the dtype and values it had before the loop;
\* no parameter was added, removed, reshaped or moved.
C7_FreezeLoop ==
    ((ppc = "freeze" /\ fi = Len(params)) \/ ppc = "lora") =>
        /\ Len(params) = Len(input.params)
        /\ \A i \in DOMAIN params :
              /\ params[i].requires_grad = FALSE
              /\ params[i].module = input.params[i].module
              /\ params[i].shape = input.params[i].shape
              /\ Ndim(params[i]) = 1 => params[i].dtype = "float32"
              /\ Ndim(params[i]) # 1 =>
                    /\ params[i].dtype = input.params[i].dtype
                    /\ params[i].values = input.params[i].values

\* C7's case: the loop has run over a trainable float16 vector and an int8
\* matrix
C7_Witness ==
    /\ ppc = "lora"
    /\ \E i, j \in DOMAIN input.params :
          /\ Ndim(input.params[i]) = 1
          /\ input.params[i].dtype = "float16"
          /\ input.params[i].requires_grad
          /\ Ndim(input.params[j]) = 2
          /\ input.params[j].dtype = "int8"

\* C8: once the head is installed, every index of sentiment_labels is a class
\* index of that head: 0 <= index < num_classes = out_features of the head.
C8_LabelsWithinHead ==
    pc = "s_train" =>
        /\ classifier = num_classes
        /\ \A i \in DOMAIN sentiment_labels :
              0 <= sentiment_labels[i] /\ sentiment_labels[i] < num_classes

\* C9: after the concatenation cell the attention mask is binary, 1 exactly
\* where input_ids holds a token of a sample and 0 exactly where it holds
\* padding.
C9_MaskMarksContent ==
    pc = "i_train" =>
        \A i \in DOMAIN input_ids :
            \A j \in DOMAIN input_ids[i] :
                /\ attention_mask[i][j] \in {0, 1}
                /\ (attention_mask[i][j] = 1) <=> (input_ids[i][j] # "pad")

\* C10: when a training loop starts, the cells before it have bound every name
\* it reads and its labels are class indices, one per row of input_ids; and
\* the loop ends without a fault, its forward pass made once per epoch.
C10_LoopRunsWithoutFault ==
    \A v \in Variants :
        /\ (pc = LoopCell(v) /\ at = "for" /\ epoch = 0) =>
              /\ LoopUses(v) \subseteq env
              /\ LabelsArg(v).dtype = "int"
              /\ Len(LabelsArg(v).vals) = Len(input_ids)
        /\ LoopEnded(v) =>
              /\ loop[v] = "done"
              /\ Count(calls[v], "forward") = num_epochs

====
